---- MODULE Spec2Model ----
(***************************************************************************)
(* Wanderlust: reconciliation of the Windows PATH configuration.           *)
(*                                                                         *)
(* The module models src/src/cleaner.rs (heal_path, clean_system_path,     *)
(* run_healing, build_minimal_path, apply_path), the SystemOps capability  *)
(* surface of src/src/system.rs and the exit path of src/src/main.rs.      *)
(*                                                                         *)
(* Strings are sequences of one-character strings, so that splitting on    *)
(* ';', case folding and PathBuf comparison are computed, not assumed.     *)
(***************************************************************************)
EXTENDS Naturals, Integers, Sequences, FiniteSets, TLC

VARIABLES
    candidates_map,       \* command -> sequence of candidate directories
    systemPath,           \* machine scope (HKLM Path): None or Some(string)
    userPath,             \* user scope (HKCU Path): None or Some(string)
    dry_run,              \* the --dry-run flag of the heal command
    pc,                   \* position of the process in heal_path / apply_path
    calls,                \* SystemOps calls and file writes made so far, in order
    current_user_path,    \* run_healing: value read at line 92
    new_path_string,      \* run_healing: the built target value (line 98)
    adding,               \* run_healing: entries to be added (line 111)
    removing,             \* run_healing: entries to be removed (line 106)
    sys_dups,             \* run_healing: duplicate count of the dry-run report
    clean_result,         \* outcome of clean_system_path
    old_val,              \* apply_path: value read at line 406
    backup_file,          \* backup.reg: None or Some(escaped old value)
    posix_file,           \* .wanderlust_posix: None or Some(content)
    broadcast_called,     \* whether a broadcast has been delivered
    CHECKED_INVARIANTS,   \* the registry of invariant_ppt.rs
    poisoned,             \* the Mutex of the registry is poisoned
    violation_logged,     \* assert_invariant has logged a violation
    mock_registry,        \* MockSystem.registry: "Path" and "SystemPath"
    result,               \* outcome of the heal run
    exit_code             \* exit status of the process

vars == <<candidates_map, systemPath, userPath, dry_run, pc, calls,
          current_user_path, new_path_string, adding, removing, sys_dups,
          clean_result, old_val, backup_file, posix_file, broadcast_called,
          CHECKED_INVARIANTS, poisoned, violation_logged, mock_registry,
          result, exit_code>>

----------------------------------------------------------------------------
(* Bounds of the model.                                                    *)

\* commands (keys) of the candidate map
MaxCmds == 2
\* candidates of the map, over all commands
MaxCandidates == 2
\* segments of a scope value
MaxEntries == 2

----------------------------------------------------------------------------
(* Characters and strings.                                                 *)

\* The characters of the model in ASCII order.
AsciiSeq ==
    <<".", "/", ":", ";",
      "A", "B", "C", "D", "E", "F", "G", "H", "I", "J", "K", "L", "M",
      "N", "O", "P", "Q", "R", "S", "T", "U", "V", "W", "X", "Y", "Z",
      "\\",
      "a", "b", "c", "d", "e", "f", "g", "h", "i", "j", "k", "l", "m",
      "n", "o", "p", "q", "r", "s", "t", "u", "v", "w", "x", "y", "z">>

Chars == {AsciiSeq[i] : i \in 1..Len(AsciiSeq)}

\* Rank of a character in byte order.
Code == [c \in Chars |-> CHOOSE i \in 1..Len(AsciiSeq) : AsciiSeq[i] = c]

\* char::to_lowercase on the characters of the model.
ToLowerChar(c) == IF Code[c] \in 5..30 THEN AsciiSeq[Code[c] + 27] ELSE c

\* str::to_lowercase
to_lowercase(s) == [i \in 1..Len(s) |-> ToLowerChar(s[i])]

\* Option<String>
None == <<>>
Some(v) == <<v>>

\* Mutant of unwrap_or_default: an error gives "." in place of the empty
\* string.
unwrap_or_dot(r) == IF r = None THEN <<".">> ELSE r[1]

\* Result<String>::unwrap_or_default
unwrap_or_default(r) == IF r = None THEN <<>> ELSE r[1]

\* Position of the first occurrence of character c in s, 0 when absent.
RECURSIVE FindChar(_, _, _)
FindChar(s, c, i) ==
    IF i > Len(s) THEN 0
    ELSE IF s[i] = c THEN i
    ELSE FindChar(s, c, i + 1)

\* str::split(c): all segments, empty ones included.
RECURSIVE split(_, _)
split(s, c) ==
    LET k == FindChar(s, c, 1)
    IN  IF k = 0 THEN <<s>>
        ELSE <<SubSeq(s, 1, k - 1)>> \o split(SubSeq(s, k + 1, Len(s)), c)

\* split(';').filter(|s| !s.is_empty())
RECURSIVE NonEmptyOf(_)
NonEmptyOf(seq) ==
    IF seq = <<>> THEN <<>>
    ELSE (IF Head(seq) # <<>> THEN <<Head(seq)>> ELSE <<>>) \o NonEmptyOf(Tail(seq))

entries(s) == NonEmptyOf(split(s, ";"))

\* [String]::join(sep)
RECURSIVE join(_, _)
join(seq, sep) ==
    IF seq = <<>> THEN <<>>
    ELSE IF Len(seq) = 1 THEN seq[1]
    ELSE seq[1] \o <<sep>> \o join(Tail(seq), sep)

Range(seq) == {seq[i] : i \in 1..Len(seq)}

\* str::starts_with
starts_with(s, p) == Len(s) >= Len(p) /\ SubSeq(s, 1, Len(p)) = p

\* str::contains
contains(s, p) ==
    \E i \in 1..(Len(s) + 1) :
        i + Len(p) - 1 <= Len(s) /\ SubSeq(s, i, i + Len(p) - 1) = p

----------------------------------------------------------------------------
(* std::path::PathBuf on Windows: equality, hashing and ordering go by     *)
(* components, so a trailing or repeated separator is not significant.     *)

IsSep(c) == c = "\\" \/ c = "/"

IsLetter(c) == Code[c] \in 5..30 \/ Code[c] \in 32..57

\* A component is <<kind, bytes>>; the kinds are numbered in the order of the
\* enum std::path::Component: 0 Prefix, 1 RootDir, 2 CurDir, 3 ParentDir,
\* 4 Normal.
RECURSIVE BodyComponents(_, _, _)
BodyComponents(segs, i, bare) ==
    IF i > Len(segs) THEN <<>>
    ELSE LET seg == segs[i]
             here == IF seg = <<>> THEN <<>>
                     ELSE IF seg = <<".">>
                          THEN (IF i = 1 /\ bare THEN << <<2, <<>>>> >> ELSE <<>>)
                     ELSE IF seg = <<".", ".">> THEN << <<3, <<>>>> >>
                     ELSE << <<4, seg>> >>
         IN  here \o BodyComponents(segs, i + 1, bare)

\* Path::components
Components(s) ==
    LET pre  == IF Len(s) >= 2 /\ s[2] = ":" /\ IsLetter(s[1])
                THEN SubSeq(s, 1, 2) ELSE <<>>
        rest == SubSeq(s, Len(pre) + 1, Len(s))
        root == rest # <<>> /\ IsSep(rest[1])
        uni  == [i \in 1..Len(rest) |-> IF rest[i] = "/" THEN "\\" ELSE rest[i]]
    IN  (IF pre # <<>> THEN << <<0, pre>> >> ELSE <<>>)
        \o (IF root THEN << <<1, <<>>>> >> ELSE <<>>)
        \o BodyComponents(split(uni, "\\"), 1, pre = <<>> /\ ~root)

\* Byte-wise lexicographic order of two strings.
RECURSIVE BytesLess(_, _)
BytesLess(a, b) ==
    IF b = <<>> THEN FALSE
    ELSE IF a = <<>> THEN TRUE
    ELSE IF Code[Head(a)] # Code[Head(b)] THEN Code[Head(a)] < Code[Head(b)]
    ELSE BytesLess(Tail(a), Tail(b))

ComponentLess(x, y) ==
    \/ x[1] < y[1]
    \/ x[1] = y[1] /\ BytesLess(x[2], y[2])

\* Ord for Path: lexicographic over the components.
RECURSIVE ComponentsLess(_, _)
ComponentsLess(a, b) ==
    IF b = <<>> THEN FALSE
    ELSE IF a = <<>> THEN TRUE
    ELSE IF Head(a) # Head(b) THEN ComponentLess(Head(a), Head(b))
    ELSE ComponentsLess(Tail(a), Tail(b))

PathLess(p, q) == ComponentsLess(Components(p), Components(q))

\* Insert p into the sorted sequence seq, after the elements not greater.
RECURSIVE SortedInsert(_, _)
SortedInsert(seq, p) ==
    IF seq = <<>> THEN <<p>>
    ELSE IF PathLess(p, Head(seq)) THEN <<p>> \o seq
    ELSE <<Head(seq)>> \o SortedInsert(Tail(seq), p)

\* Vec<PathBuf>::sort (stable)
RECURSIVE sort(_)
sort(seq) ==
    IF seq = <<>> THEN <<>>
    ELSE SortedInsert(sort(SubSeq(seq, 1, Len(seq) - 1)), seq[Len(seq)])

----------------------------------------------------------------------------
(* Directories and scope values the inputs are drawn from.                 *)

\* c:\t
dir_t == <<"c", ":", "\\", "t">>
\* C:\T
dir_T == <<"C", ":", "\\", "T">>
\* c:\t\ 
dir_ts == <<"c", ":", "\\", "t", "\\">>
\* c:\u
dir_u == <<"c", ":", "\\", "u">>
\* C:\Windows
dir_win == <<"C", ":", "\\", "W", "i", "n", "d", "o", "w", "s">>

\* C:/Windows : the Windows directory spelled with a forward slash
dir_win_fwd == <<"C", ":", "/", "W", "i", "n", "d", "o", "w", "s">>
\* c:\u\Windows\b : a tool directory with a folder named Windows on its way
dir_u_windows_b ==
    <<"c", ":", "\\", "u", "\\", "W", "i", "n", "d", "o", "w", "s", "\\", "b">>

\* Sequences over S of length 0..n
SeqsUpTo(S, n) == UNION {[1..k -> S] : k \in 0..n}

Cmds == 1..MaxCmds

\* Permutations of the commands: the orders HashMap::values can enumerate in.
Orders == {o \in [Cmds -> Cmds] : \A c \in Cmds : \E i \in Cmds : o[i] = c}

\* The candidates of list f that owner assigns to command c, in order.
RECURSIVE candidates_of(_, _, _, _)
candidates_of(f, owner, c, i) ==
    IF i > Len(f) THEN <<>>
    ELSE (IF owner[i] = c THEN <<f[i]>> ELSE <<>>)
         \o candidates_of(f, owner, c, i + 1)

\* The candidate maps with at most MaxCandidates candidates drawn from dirs:
\* HashMap<String, Vec<Candidate>>, a command without candidates being absent.
MapsOver(dirs) ==
    UNION { { [c \in Cmds |-> candidates_of(f, owner, c, 1)] :
                owner \in [1..Len(f) -> Cmds] } :
            f \in SeqsUpTo(dirs, MaxCandidates) }

\* Candidate directories of the build specification.
CandDirs == {dir_t, dir_T, dir_ts, dir_u, dir_win}

\* Candidate directories and machine-scope values of the builds that meet
\* folders named Windows.
ReservedDirs == {dir_u, dir_win, dir_win_fwd, dir_u_windows_b}

ReservedSysValues == {<<>>, dir_u, dir_win}

\* Segments of a machine-scope value.
SysSegments == {dir_T, dir_t}

\* C:\T;;C:\T; : a value with empty segments and a repeated entry
sys_with_empty_segments == dir_T \o <<";", ";">> \o dir_T \o <<";">>

\* Machine-scope values: the segments joined with ';'.
SysValues ==
    {join(q, ";") : q \in SeqsUpTo(SysSegments, MaxEntries)}
    \cup {sys_with_empty_segments}

----------------------------------------------------------------------------
(* cleaner.rs: build_minimal_path                                          *)

\* "\windows\"
pat_windows_inner == <<"\\", "w", "i", "n", "d", "o", "w", "s", "\\">>
\* "c:\windows"
pat_windows_root == <<"c", ":", "\\", "w", "i", "n", "d", "o", "w", "s">>
\* "users", "appdata", ".cargo"
pat_users == <<"u", "s", "e", "r", "s">>
pat_appdata == <<"a", "p", "p", "d", "a", "t", "a">>
pat_cargo == <<".", "c", "a", "r", "g", "o">>

\* Mutant of normalize_path: the path is compared as written.
normalize_path_as_written(p) == p

\* normalize_path: the lowercased string as a PathBuf.
normalize_path(p) == to_lowercase(p)

\* The candidates in the order the two nested loops visit them.
RECURSIVE values_in_order(_, _, _)
values_in_order(map, order, i) ==
    IF i > Len(order) THEN <<>>
    ELSE map[order[i]] \o values_in_order(map, order, i + 1)

\* The HashSet<PathBuf> built from the machine scope (lines 317-322); a
\* PathBuf is represented in the set by its components.
system_path_entries(sysread) ==
    {Components(normalize_path(e)) : e \in Range(entries(unwrap_or_default(sysread)))}

\* The test of lines 335-338.
is_windows_dir(norm) ==
    LET path_str == to_lowercase(norm)
    IN  contains(path_str, pat_windows_inner) \/ starts_with(path_str, pat_windows_root)

\* Mutant of collect_user_paths: the insert into seen_paths is missing.
RECURSIVE collect_without_insert(_, _, _)
collect_without_insert(cands, seen_paths, user_paths) ==
    IF cands = <<>> THEN user_paths
    ELSE LET norm == normalize_path(Head(cands))
         IN  IF is_windows_dir(norm) \/ Components(norm) \in seen_paths
             THEN collect_without_insert(Tail(cands), seen_paths, user_paths)
             ELSE collect_without_insert(Tail(cands), seen_paths,
                                         Append(user_paths, norm))

\* The loop of lines 330-345 over the remaining candidates.
RECURSIVE collect_user_paths(_, _, _)
collect_user_paths(cands, seen_paths, user_paths) ==
    IF cands = <<>> THEN user_paths
    ELSE LET norm == normalize_path(Head(cands))
         IN  IF is_windows_dir(norm)
             THEN collect_user_paths(Tail(cands), seen_paths, user_paths)
             ELSE IF Components(norm) \in seen_paths
             THEN collect_user_paths(Tail(cands), seen_paths, user_paths)
             ELSE collect_user_paths(Tail(cands),
                                     seen_paths \cup {Components(norm)},
                                     Append(user_paths, norm))

\* user_paths after the sort of line 348.
build_user_paths(map, order, sysread) ==
    sort(collect_user_paths(values_in_order(map, order, 1),
                            system_path_entries(sysread), <<>>))

\* The value returned for user_paths (lines 363-366).
joined(user_paths) == join(user_paths, ";")

\* The value returned by build_minimal_path.
build_minimal_path(map, order, sysread) ==
    joined(build_user_paths(map, order, sysread))

\* has_user_tools (lines 353-356)
has_user_tools(user_paths) ==
    \E i \in 1..Len(user_paths) :
        LET s == to_lowercase(user_paths[i])
        IN  contains(s, pat_users) \/ contains(s, pat_appdata)
            \/ contains(s, pat_cargo)

\* assert_invariant logs a violation (invariant_ppt.rs lines 21-27) when it
\* is called (line 358) with a false condition (line 359).
build_violation(user_paths) ==
    /\ user_paths # <<>>
    /\ ~(has_user_tools(user_paths) \/ Len(user_paths) > 0)

\* "User PATH should contain user-specific paths"
desc_user_paths == "User PATH should contain user-specific paths"

\* The registry after the invariant check of lines 353-360: the asserted
\* condition is has_user_tools || user_paths.len() > 0, and assert_invariant
\* records the description when the condition is true.
build_checked(user_paths, log) ==
    IF user_paths # <<>> /\ (has_user_tools(user_paths) \/ Len(user_paths) > 0)
    THEN log \cup {desc_user_paths}
    ELSE log

----------------------------------------------------------------------------
(* cleaner.rs: clean_system_path, the diff of run_healing, win_to_posix    *)

\* Mutant of clean_entries: the lowercased segment is what is kept.
RECURSIVE clean_entries_keeping_normalized(_, _, _)
clean_entries_keeping_normalized(parts, seen, cleaned) ==
    IF parts = <<>> THEN cleaned
    ELSE LET part == Head(parts)
             normalized == to_lowercase(part)
         IN  IF part = <<>>
             THEN clean_entries_keeping_normalized(Tail(parts), seen, cleaned)
             ELSE IF normalized \in seen
             THEN clean_entries_keeping_normalized(Tail(parts), seen, cleaned)
             ELSE clean_entries_keeping_normalized(Tail(parts),
                      seen \cup {normalized}, Append(cleaned, normalized))

\* The loop of lines 54-61: first occurrence of every lowercased segment.
RECURSIVE clean_entries(_, _, _)
clean_entries(parts, seen, cleaned) ==
    IF parts = <<>> THEN cleaned
    ELSE LET part == Head(parts)
             normalized == to_lowercase(part)
         IN  IF part = <<>> THEN clean_entries(Tail(parts), seen, cleaned)
             ELSE IF normalized \in seen
             THEN clean_entries(Tail(parts), seen, cleaned)
             ELSE clean_entries(Tail(parts), seen \cup {normalized},
                                Append(cleaned, part))

\* cleaned (line 52) for a machine-scope value
cleaned_of(system_path) == clean_entries(split(system_path, ";"), {}, <<>>)

\* new_system_path (line 63)
new_system_path_of(system_path) == join(cleaned_of(system_path), ";")

\* Mutant of needs_cleaning: old_count counts the empty segments too.
needs_cleaning_counting_empty(system_path) ==
    Len(split(system_path, ";")) # Len(cleaned_of(system_path))

\* old_count != new_count (lines 65-68): the cleanup has something to remove
needs_cleaning(system_path) ==
    Len(entries(system_path)) # Len(cleaned_of(system_path))

\* The set of lowercased non-empty segments (lines 93-96 and 100-103).
lower_entries(s) == {to_lowercase(e) : e \in Range(entries(s))}

\* Mutant of not_in: the entry is looked up as written.
RECURSIVE not_in_as_written(_, _)
not_in_as_written(es, lowered) ==
    IF es = <<>> THEN <<>>
    ELSE (IF Head(es) \in lowered THEN <<>> ELSE <<Head(es)>>)
         \o not_in_as_written(Tail(es), lowered)

\* The entries of value a with no lowercased match in value b (lines 106-114).
RECURSIVE not_in(_, _)
not_in(es, lowered) ==
    IF es = <<>> THEN <<>>
    ELSE (IF to_lowercase(Head(es)) \in lowered THEN <<>> ELSE <<Head(es)>>)
         \o not_in(Tail(es), lowered)

removing_of(cur, new) == not_in(entries(cur), lower_entries(new))

adding_of(cur, new) == not_in(entries(new), lower_entries(cur))

\* sys_dups of the dry-run report (lines 124-127): HashSet<&str> of the raw
\* segments, compared as written.
sys_dups_of(sysread) ==
    LET sys_parts == entries(unwrap_or_default(sysread))
    IN  Len(sys_parts) - Cardinality(Range(sys_parts))

\* Mutant of win_to_posix: the drive letter keeps its case.
win_to_posix_keeping_case(path) ==
    LET s == [i \in 1..Len(path) |-> IF path[i] = "\\" THEN "/" ELSE path[i]]
    IN  IF Len(s) >= 2 /\ s[2] = ":"
        THEN <<"/", s[1]>> \o SubSeq(s, 3, Len(s))
        ELSE s

\* win_to_posix (lines 382-390)
win_to_posix(path) ==
    LET s == [i \in 1..Len(path) |-> IF path[i] = "\\" THEN "/" ELSE path[i]]
    IN  IF Len(s) >= 2 /\ s[2] = ":"
        THEN <<"/", ToLowerChar(s[1])>> \o SubSeq(s, 3, Len(s))
        ELSE s

\* full_posix (lines 181-194)
full_posix_of(sysread, new_val) ==
    LET sys == entries(unwrap_or_default(sysread))
        usr == entries(new_val)
        all == sys \o usr
    IN  join([i \in 1..Len(all) |-> win_to_posix(all[i])], ":")

\* escaped_old_val (line 417); the quote character is not in the alphabet
RECURSIVE escape_reg(_)
escape_reg(s) ==
    IF s = <<>> THEN <<>>
    ELSE (IF Head(s) = "\\" THEN <<"\\", "\\">> ELSE <<Head(s)>>)
         \o escape_reg(Tail(s))

\* A backup file that File::create truncated and write_all did not fill.
Truncated == << <<>>, <<>> >>

----------------------------------------------------------------------------
(* The heal run: main -> heal_path -> clean_system_path, run_healing,      *)
(* apply_path.  SystemOps calls that return a Result may fail.             *)

\* Candidate directories and user-scope values of the heal run.
RunDirs == {dir_T, dir_u}

\* The candidate maps of the heal run: one directory for a command, as in
\* test_run_healing_mocks.
RunMaps == {m \in MapsOver(RunDirs) : \A c \in Cmds : Len(m[c]) <= 1}

UserValues ==
    {<<>>, dir_u, dir_T, dir_T \o <<";">> \o dir_u,
     dir_u \o <<";", ";">> \o dir_ts}

\* C:\T; : one entry and an empty segment
sys_trailing_separator == dir_T \o <<";">>

\* c:\u;;C:\T;c:\t;c:\u : two directories, both repeated, one in two casings
sys_mixed ==
    dir_u \o <<";", ";">> \o dir_T \o <<";">> \o dir_t \o <<";">> \o dir_u

\* \u;C:\T : an entry without a drive letter, then one with
sys_no_drive == <<"\\", "u", ";">> \o dir_T

\* Machine-scope values of the heal run: empty, one entry, two casings of one
\* directory, a repeated entry among empty segments, an entry before an
\* empty segment, two repeated directories, and an entry without a drive
\* letter.
RunSysValues ==
    {<<>>, dir_T, dir_t \o <<";">> \o dir_T, sys_with_empty_segments,
     sys_trailing_separator, sys_mixed, sys_no_drive}

\* The registry of MockSystem::default(): neither key is present.
NoMock == [k \in {"Path", "SystemPath"} |-> None]

\* One entry of the call log.
Call(op, outcome) == <<op, outcome>>

Outcome(ok) == IF ok THEN "ok" ELSE "err"

\* Mutant of Init: heal_path calls run_healing without the cleanup first.
Init_without_cleanup ==
    /\ candidates_map \in RunMaps
    /\ systemPath \in {None} \cup {Some(v) : v \in RunSysValues}
    /\ userPath \in {None} \cup {Some(v) : v \in UserValues}
    /\ dry_run \in BOOLEAN
    /\ pc = "run_healing"
    /\ calls = <<>>
    /\ current_user_path = <<>>
    /\ new_path_string = <<>>
    /\ adding = <<>>
    /\ removing = <<>>
    /\ sys_dups = 0
    /\ clean_result = "none"
    /\ old_val = <<>>
    /\ backup_file = None
    /\ posix_file = None
    /\ broadcast_called = FALSE
    /\ CHECKED_INVARIANTS = {}
    /\ poisoned = FALSE
    /\ violation_logged = FALSE
    /\ mock_registry = NoMock
    /\ result = "running"
    /\ exit_code = -1

\* The state in which heal_path starts (lines 31-35).
Init ==
    /\ candidates_map \in RunMaps
    /\ systemPath \in {None} \cup {Some(v) : v \in RunSysValues}
    /\ userPath \in {None} \cup {Some(v) : v \in UserValues}
    /\ dry_run \in BOOLEAN
    /\ pc = "clean_system_path"
    /\ calls = <<>>
    /\ current_user_path = <<>>
    /\ new_path_string = <<>>
    /\ adding = <<>>
    /\ removing = <<>>
    /\ sys_dups = 0
    /\ clean_result = "none"
    /\ old_val = <<>>
    /\ backup_file = None
    /\ posix_file = None
    /\ broadcast_called = FALSE
    /\ CHECKED_INVARIANTS = {}
    /\ poisoned = FALSE
    /\ violation_logged = FALSE
    /\ mock_registry = NoMock
    /\ result = "running"
    /\ exit_code = -1

\* Mutant of clean_decision: the dry-run return of lines 75-78 is missing.
clean_decision_ignoring_dry_run(system_path, dry) ==
    IF ~needs_cleaning(system_path) THEN "already_clean" ELSE "write"

\* What clean_system_path does with a value it has read (lines 68-80).
clean_decision(system_path, dry) ==
    IF ~needs_cleaning(system_path) THEN "already_clean"
    ELSE IF dry THEN "would_clean"
    ELSE "write"

\* Mutant of clean_system_path: heal_path returns the error of the cleanup
\* instead of dropping it.
clean_system_path_propagating ==
    /\ pc = "clean_system_path"
    /\ IF systemPath = None
       THEN /\ calls' = Append(calls, Call("read_system_path_registry", "err"))
            /\ clean_result' = "read_err"
            /\ UNCHANGED systemPath
       ELSE LET system_path == systemPath[1]
                read == Append(calls, Call("read_system_path_registry", "ok"))
                decision == clean_decision(system_path, dry_run)
            IN  IF decision # "write"
                THEN /\ calls' = read
                     /\ clean_result' = decision
                     /\ UNCHANGED systemPath
                ELSE \E ok \in BOOLEAN :
                        /\ calls' = Append(read,
                               Call("write_system_path_registry", Outcome(ok)))
                        /\ clean_result' = IF ok THEN "cleaned" ELSE "write_err"
                        /\ systemPath' = IF ok
                                         THEN Some(new_system_path_of(system_path))
                                         ELSE systemPath
    /\ pc' = IF clean_result' \in {"read_err", "write_err"}
             THEN "main_exit" ELSE "run_healing"
    /\ UNCHANGED <<candidates_map, mock_registry, userPath, dry_run, current_user_path,
                   new_path_string, adding, removing, sys_dups, old_val,
                   backup_file, posix_file, broadcast_called,
                   CHECKED_INVARIANTS, poisoned,
                   violation_logged, result, exit_code>>

\* clean_system_path (lines 48-83), called from heal_path line 39; its
\* Result is dropped by the caller.
clean_system_path ==
    /\ pc = "clean_system_path"
    /\ pc' = "run_healing"
    /\ IF systemPath = None
       THEN /\ calls' = Append(calls, Call("read_system_path_registry", "err"))
            /\ clean_result' = "read_err"
            /\ UNCHANGED systemPath
       ELSE LET system_path == systemPath[1]
                read == Append(calls, Call("read_system_path_registry", "ok"))
                decision == clean_decision(system_path, dry_run)
            IN  IF decision # "write"
                THEN /\ calls' = read
                     /\ clean_result' = decision
                     /\ UNCHANGED systemPath
                ELSE \E ok \in BOOLEAN :
                        /\ calls' = Append(read,
                               Call("write_system_path_registry", Outcome(ok)))
                        /\ clean_result' = IF ok THEN "cleaned" ELSE "write_err"
                        /\ systemPath' = IF ok
                                         THEN Some(new_system_path_of(system_path))
                                         ELSE systemPath
    /\ UNCHANGED <<candidates_map, mock_registry, userPath, dry_run, current_user_path,
                   new_path_string, adding, removing, sys_dups, old_val,
                   backup_file, posix_file, broadcast_called,
                   CHECKED_INVARIANTS, poisoned,
                   violation_logged, result, exit_code>>

\* run_healing lines 92-114: read the user scope, build the target value
\* (build_minimal_path reads the machine scope) and compute the diff.
run_healing_compute ==
    /\ pc = "run_healing"
    /\ \E order \in Orders :
          LET cur == unwrap_or_default(userPath)
              user_paths == build_user_paths(candidates_map, order, systemPath)
              new == joined(user_paths)
          IN  /\ current_user_path' = cur
              /\ new_path_string' = new
              /\ removing' = removing_of(cur, new)
              /\ adding' = adding_of(cur, new)
              /\ CHECKED_INVARIANTS' =
                     build_checked(user_paths, CHECKED_INVARIANTS)
              /\ violation_logged' =
                     (violation_logged \/ build_violation(user_paths))
              /\ poisoned' = poisoned
    /\ calls' = calls \o
          << Call("read_user_path_registry", Outcome(userPath # None)),
             Call("read_system_path_registry", Outcome(systemPath # None)) >>
    /\ pc' = IF dry_run THEN "report" ELSE "write_posix"
    /\ UNCHANGED <<candidates_map, mock_registry, systemPath, userPath, dry_run, sys_dups,
                   clean_result, old_val, backup_file, posix_file,
                   broadcast_called, result, exit_code>>

\* Mutant of run_healing_report: an unreadable machine scope is returned as
\* an error.
run_healing_report_propagating ==
    /\ pc = "report"
    /\ sys_dups' = sys_dups_of(systemPath)
    /\ calls' = Append(calls,
          Call("read_system_path_registry", Outcome(systemPath # None)))
    /\ result' = IF systemPath = None THEN "write_failed" ELSE "ok"
    /\ pc' = "main_exit"
    /\ UNCHANGED <<candidates_map, mock_registry, systemPath, userPath,
                   dry_run, current_user_path, new_path_string, adding,
                   removing, clean_result, old_val, backup_file, posix_file,
                   broadcast_called, CHECKED_INVARIANTS, poisoned,
                   violation_logged,
                   exit_code>>

\* run_healing lines 116-175: the dry-run report; returns Ok.
run_healing_report ==
    /\ pc = "report"
    /\ sys_dups' = sys_dups_of(systemPath)
    /\ calls' = Append(calls,
          Call("read_system_path_registry", Outcome(systemPath # None)))
    /\ result' = "ok"
    /\ pc' = "main_exit"
    /\ UNCHANGED <<candidates_map, mock_registry, systemPath, userPath, dry_run,
                   current_user_path, new_path_string, adding, removing,
                   clean_result, old_val, backup_file, posix_file,
                   broadcast_called, CHECKED_INVARIANTS, poisoned,
                   violation_logged, exit_code>>

\* run_healing lines 179-201: the POSIX mirror file.
write_posix ==
    /\ pc = "write_posix"
    /\ \E outcome \in {"no_user_dirs", "create_failed", "written"} :
          IF outcome = "no_user_dirs"
          THEN UNCHANGED <<calls, posix_file>>
          ELSE /\ calls' = calls \o
                     << Call("read_system_path_registry",
                             Outcome(systemPath # None)),
                        Call("create_posix_file",
                             Outcome(outcome = "written")) >>
               /\ posix_file' =
                     IF outcome = "written"
                     THEN Some(full_posix_of(systemPath, new_path_string))
                     ELSE posix_file
    /\ pc' = "apply_read"
    /\ UNCHANGED <<candidates_map, mock_registry, systemPath, userPath, dry_run,
                   current_user_path, new_path_string, adding, removing,
                   sys_dups, clean_result, old_val, backup_file,
                   broadcast_called, CHECKED_INVARIANTS, poisoned,
                   violation_logged, result, exit_code>>

----------------------------------------------------------------------------
(* cleaner.rs: apply_path (lines 401-457), called at run_healing line 204  *)

\* The frame of the apply steps: what only the earlier phases assign.
apply_frame ==
    UNCHANGED <<candidates_map, mock_registry, systemPath, dry_run, current_user_path,
                new_path_string, adding, removing, sys_dups, clean_result,
                posix_file, CHECKED_INVARIANTS, poisoned,
                   violation_logged, exit_code>>

\* line 406: read the old value; an unreadable scope counts as empty.
apply_read ==
    /\ pc = "apply_read"
    /\ old_val' = unwrap_or_default(userPath)
    /\ calls' = Append(calls,
          Call("read_user_path_registry", Outcome(userPath # None)))
    /\ pc' = "apply_backup"
    /\ apply_frame
    /\ UNCHANGED <<userPath, backup_file, broadcast_called, result>>

\* Mutant of apply_backup: a failure to persist the backup is returned
\* to the caller.
apply_backup_propagating ==
    /\ pc = "apply_backup"
    /\ \E outcome \in {"no_base_dirs", "dir_failed", "create_failed",
                       "write_failed", "written"} :
          /\ calls' =
                IF outcome = "no_base_dirs" THEN calls
                ELSE IF outcome = "dir_failed"
                THEN Append(calls, Call("create_dir_all", "err"))
                ELSE calls \o
                     << Call("create_dir_all", "ok"),
                        Call("write_backup_file",
                             Outcome(outcome = "written")) >>
          /\ backup_file' =
                IF outcome = "written" THEN Some(escape_reg(old_val))
                ELSE IF outcome = "write_failed" THEN Truncated
                ELSE backup_file
          /\ pc' = IF outcome \in {"no_base_dirs", "written"}
                   THEN "apply_write" ELSE "main_exit"
          /\ result' = IF outcome \in {"no_base_dirs", "written"}
                       THEN result ELSE "write_failed"
    /\ apply_frame
    /\ UNCHANGED <<userPath, old_val, broadcast_called>>

\* Mutant of apply_backup: a backup file that exists is kept as it is.
apply_backup_keeping_first ==
    /\ pc = "apply_backup"
    /\ \E outcome \in {"no_base_dirs", "dir_failed", "create_failed",
                       "write_failed", "written"} :
          /\ calls' =
                IF outcome = "no_base_dirs" THEN calls
                ELSE IF outcome = "dir_failed"
                THEN Append(calls, Call("create_dir_all", "err"))
                ELSE calls \o
                     << Call("create_dir_all", "ok"),
                        Call("write_backup_file",
                             Outcome(outcome = "written")) >>
          /\ backup_file' =
                IF backup_file # None THEN backup_file
                ELSE IF outcome = "written" THEN Some(escape_reg(old_val))
                ELSE IF outcome = "write_failed" THEN Truncated
                ELSE backup_file
    /\ pc' = "apply_write"
    /\ apply_frame
    /\ UNCHANGED <<userPath, old_val, broadcast_called, result>>

\* lines 409-429: the backup; none of its failures is propagated.
apply_backup ==
    /\ pc = "apply_backup"
    /\ \E outcome \in {"no_base_dirs", "dir_failed", "create_failed",
                       "write_failed", "written"} :
          /\ calls' =
                IF outcome = "no_base_dirs" THEN calls
                ELSE IF outcome = "dir_failed"
                THEN Append(calls, Call("create_dir_all", "err"))
                ELSE calls \o
                     << Call("create_dir_all", "ok"),
                        Call("write_backup_file",
                             Outcome(outcome = "written")) >>
          /\ backup_file' =
                IF outcome = "written" THEN Some(escape_reg(old_val))
                ELSE IF outcome = "write_failed" THEN Truncated
                ELSE backup_file
    /\ pc' = "apply_write"
    /\ apply_frame
    /\ UNCHANGED <<userPath, old_val, broadcast_called, result>>

\* Mutant of apply_write: the error of the write is dropped.
apply_write_ignoring_error ==
    /\ pc = "apply_write"
    /\ \E ok \in BOOLEAN :
          /\ calls' = Append(calls,
                Call("write_user_path_registry", Outcome(ok)))
          /\ userPath' = IF ok THEN Some(new_path_string) ELSE userPath
          /\ result' = result
          /\ pc' = "apply_broadcast1"
    /\ apply_frame
    /\ UNCHANGED <<old_val, backup_file, broadcast_called>>

\* Mutant of apply_write: a failed write leaves the first half of the target
\* value in the user scope.
apply_write_torn ==
    /\ pc = "apply_write"
    /\ \E ok \in BOOLEAN :
          /\ calls' = Append(calls,
                Call("write_user_path_registry", Outcome(ok)))
          /\ userPath' = IF ok THEN Some(new_path_string)
                         ELSE Some(SubSeq(new_path_string, 1,
                                          Len(new_path_string) \div 2))
          /\ result' = IF ok THEN result ELSE "write_failed"
          /\ pc' = IF ok THEN "apply_broadcast1" ELSE "main_exit"
    /\ apply_frame
    /\ UNCHANGED <<old_val, backup_file, broadcast_called>>

\* Mutant of apply_write: an empty target value is refused as an error.
apply_write_refusing_empty ==
    /\ pc = "apply_write"
    /\ \E ok \in BOOLEAN :
          LET done == ok /\ new_path_string # <<>>
          IN  /\ calls' = IF new_path_string = <<>> THEN calls
                          ELSE Append(calls,
                              Call("write_user_path_registry", Outcome(ok)))
              /\ userPath' = IF done THEN Some(new_path_string) ELSE userPath
              /\ result' = IF done THEN result ELSE "write_failed"
              /\ pc' = IF done THEN "apply_broadcast1" ELSE "main_exit"
    /\ apply_frame
    /\ UNCHANGED <<old_val, backup_file, broadcast_called>>

\* line 432: write the target value; an error is returned to the caller.
apply_write ==
    /\ pc = "apply_write"
    /\ \E ok \in BOOLEAN :
          /\ calls' = Append(calls,
                Call("write_user_path_registry", Outcome(ok)))
          /\ userPath' = IF ok THEN Some(new_path_string) ELSE userPath
          /\ result' = IF ok THEN result ELSE "write_failed"
          /\ pc' = IF ok THEN "apply_broadcast1" ELSE "main_exit"
    /\ apply_frame
    /\ UNCHANGED <<old_val, backup_file, broadcast_called>>

\* Mutant of broadcast: a failed broadcast ends apply_path.
broadcast_propagating(next_pc) ==
    /\ \E ok \in BOOLEAN :
          /\ broadcast_called' = (broadcast_called \/ ok)
          /\ pc' = IF ok THEN next_pc ELSE "main_exit"
    /\ calls' = Append(calls, Call("broadcast_environment_change", "sent"))
    /\ apply_frame
    /\ UNCHANGED <<userPath, old_val, backup_file>>

\* One broadcast_environment_change call whose Result is dropped.
broadcast(next_pc) ==
    /\ \E ok \in BOOLEAN : broadcast_called' = (broadcast_called \/ ok)
    /\ calls' = Append(calls, Call("broadcast_environment_change", "sent"))
    /\ pc' = next_pc
    /\ apply_frame
    /\ UNCHANGED <<userPath, old_val, backup_file>>

\* line 435
apply_broadcast1 ==
    /\ pc = "apply_broadcast1"
    /\ broadcast("apply_broadcast2")
    /\ UNCHANGED result

\* Mutant of apply_broadcast2: the second broadcast is left out.
apply_broadcast2_left_out ==
    /\ pc = "apply_broadcast2"
    /\ pc' = "apply_verify"
    /\ apply_frame
    /\ UNCHANGED <<calls, userPath, old_val, backup_file, broadcast_called,
                   result>>

\* line 441
apply_broadcast2 ==
    /\ pc = "apply_broadcast2"
    /\ broadcast("apply_verify")
    /\ UNCHANGED result

\* Mutant of verify_environment_health: all three probes have to succeed.
verify_environment_health_unanimous(probes) ==
    Cardinality({i \in DOMAIN probes : probes[i]}) >= 3

\* system.rs lines 82-103: healthy when at least 2 of the 3 probes succeed.
verify_environment_health(probes) ==
    Cardinality({i \in DOMAIN probes : probes[i]}) >= 2

\* line 444, and lines 205-207 of run_healing on success.
apply_verify ==
    /\ pc = "apply_verify"
    /\ \E probes \in [1..3 -> BOOLEAN] :
          LET healthy == verify_environment_health(probes)
          IN  /\ calls' = calls \o
                    << Call("probe_commands", probes),
                       Call("verify_environment_health", Outcome(healthy)) >>
              /\ result' = IF healthy THEN "ok" ELSE result
              /\ pc' = IF healthy THEN "main_exit" ELSE "apply_rollback"
    /\ apply_frame
    /\ UNCHANGED <<userPath, old_val, backup_file, broadcast_called>>

\* Mutant of rollback_value: the rollback writes the lowercased old value.
rollback_value_normalized(old, new) == to_lowercase(old)

\* The value the rollback writes (line 448).
rollback_value(old, new) == old

\* Mutant of verify_failure: one error for both outcomes of the rollback.
verify_failure_conflated(rollback_ok) == "rolled_back"

\* The error apply_path returns after a failed verification (lines 448-453).
verify_failure(rollback_ok) ==
    IF rollback_ok THEN "rolled_back" ELSE "unrecoverable"

\* Mutant of apply_rollback: the rollback writes the old value to the
\* machine scope as well.
apply_rollback_of_both_scopes ==
    /\ pc = "apply_rollback"
    /\ \E ok \in BOOLEAN :
          /\ calls' = Append(calls,
                Call("write_user_path_registry", Outcome(ok)))
          /\ userPath' = IF ok THEN Some(rollback_value(old_val, new_path_string))
                         ELSE userPath
          /\ systemPath' = IF ok THEN Some(rollback_value(old_val, new_path_string))
                           ELSE systemPath
          /\ result' = IF ok THEN result ELSE verify_failure(FALSE)
          /\ pc' = IF ok THEN "apply_rollback_broadcast" ELSE "main_exit"
    /\ UNCHANGED <<candidates_map, mock_registry, dry_run, current_user_path,
                   new_path_string, adding, removing, sys_dups, clean_result,
                   posix_file, CHECKED_INVARIANTS, poisoned,
                   violation_logged, exit_code,
                   old_val, backup_file, broadcast_called>>

\* Mutant of apply_rollback: an empty old value is restored by deleting the
\* value of the user scope.
apply_rollback_deleting_empty ==
    /\ pc = "apply_rollback"
    /\ \E ok \in BOOLEAN :
          /\ calls' = Append(calls,
                Call("write_user_path_registry", Outcome(ok)))
          /\ userPath' = IF ~ok THEN userPath
                         ELSE IF old_val = <<>> THEN None
                         ELSE Some(rollback_value(old_val, new_path_string))
          /\ result' = IF ok THEN result ELSE verify_failure(FALSE)
          /\ pc' = IF ok THEN "apply_rollback_broadcast" ELSE "main_exit"
    /\ apply_frame
    /\ UNCHANGED <<old_val, backup_file, broadcast_called>>

\* lines 448-451: write the old value back; failure is the manual-recovery
\* error.
apply_rollback ==
    /\ pc = "apply_rollback"
    /\ \E ok \in BOOLEAN :
          /\ calls' = Append(calls,
                Call("write_user_path_registry", Outcome(ok)))
          /\ userPath' = IF ok THEN Some(rollback_value(old_val, new_path_string))
                         ELSE userPath
          /\ result' = IF ok THEN result ELSE verify_failure(FALSE)
          /\ pc' = IF ok THEN "apply_rollback_broadcast" ELSE "main_exit"
    /\ apply_frame
    /\ UNCHANGED <<old_val, backup_file, broadcast_called>>

\* lines 452-453: broadcast again and return the rolled-back error.
apply_rollback_broadcast ==
    /\ pc = "apply_rollback_broadcast"
    /\ broadcast("main_exit")
    /\ result' = verify_failure(TRUE)

\* main.rs lines 98-101: an Err from heal_path exits with status 1.
main_exit ==
    /\ pc = "main_exit"
    /\ exit_code' = IF result = "ok" THEN 0 ELSE 1
    /\ pc' = "done"
    /\ UNCHANGED <<candidates_map, mock_registry, systemPath, userPath, dry_run, calls,
                   current_user_path, new_path_string, adding, removing,
                   sys_dups, clean_result, old_val, backup_file, posix_file,
                   broadcast_called, CHECKED_INVARIANTS, poisoned,
                   violation_logged, result>>

Next ==
    \/ clean_system_path
    \/ run_healing_compute
    \/ run_healing_report
    \/ write_posix
    \/ apply_read
    \/ apply_backup
    \/ apply_write
    \/ apply_broadcast1
    \/ apply_broadcast2
    \/ apply_verify
    \/ apply_rollback
    \/ apply_rollback_broadcast
    \/ main_exit

Spec == Init /\ [][Next]_vars

\* The heal run on a system that an earlier run has healed: the user scope
\* holds the value built from the candidate map and the machine scope.
IdempotentDirs == {dir_t, dir_ts, dir_u}

IdempotentMaps ==
    {m \in MapsOver(IdempotentDirs) : \A c \in Cmds : Len(m[c]) <= 1}

IdempotentSysValues == {dir_u, dir_u \o <<";">> \o dir_u}

InitIdempotent ==
    /\ candidates_map \in IdempotentMaps
    /\ systemPath \in {None} \cup {Some(v) : v \in IdempotentSysValues}
    /\ \E order \in Orders :
          userPath = Some(build_minimal_path(candidates_map, order, systemPath))
    /\ dry_run \in BOOLEAN
    /\ pc = "clean_system_path"
    /\ calls = <<>>
    /\ current_user_path = <<>>
    /\ new_path_string = <<>>
    /\ adding = <<>>
    /\ removing = <<>>
    /\ sys_dups = 0
    /\ clean_result = "none"
    /\ old_val = <<>>
    /\ backup_file = None
    /\ posix_file = None
    /\ broadcast_called = FALSE
    /\ CHECKED_INVARIANTS = {}
    /\ poisoned = FALSE
    /\ violation_logged = FALSE
    /\ mock_registry = NoMock
    /\ result = "running"
    /\ exit_code = -1

SpecIdempotent == InitIdempotent /\ [][Next]_vars

\* Heal runs one after another (main.rs lines 84-102, one process each): the
\* two scopes, backup.reg and .wanderlust_posix are what a run leaves to the
\* next one; discovery and the flag are those of the new process.
RepeatUserValues == {<<>>, dir_T}

RepeatMaps == {m \in RunMaps : \A c \in Cmds : Range(m[c]) \subseteq {dir_u}}

InitRepeat ==
    /\ candidates_map \in RepeatMaps
    /\ systemPath \in {None, Some(dir_T)}
    /\ userPath \in {None} \cup {Some(v) : v \in RepeatUserValues}
    /\ dry_run \in BOOLEAN
    /\ pc = "clean_system_path"
    /\ calls = <<>>
    /\ current_user_path = <<>>
    /\ new_path_string = <<>>
    /\ adding = <<>>
    /\ removing = <<>>
    /\ sys_dups = 0
    /\ clean_result = "none"
    /\ old_val = <<>>
    /\ backup_file = None
    /\ posix_file = None
    /\ broadcast_called = FALSE
    /\ CHECKED_INVARIANTS = {}
    /\ poisoned = FALSE
    /\ violation_logged = FALSE
    /\ mock_registry = NoMock
    /\ result = "running"
    /\ exit_code = -1

\* The next invocation of the heal command.
next_run ==
    /\ pc = "done"
    /\ candidates_map' \in RepeatMaps
    /\ dry_run' \in BOOLEAN
    /\ pc' = "clean_system_path"
    /\ calls' = <<>>
    /\ current_user_path' = <<>>
    /\ new_path_string' = <<>>
    /\ adding' = <<>>
    /\ removing' = <<>>
    /\ sys_dups' = 0
    /\ clean_result' = "none"
    /\ old_val' = <<>>
    /\ broadcast_called' = FALSE
    /\ CHECKED_INVARIANTS' = {}
    /\ poisoned' = FALSE
    /\ violation_logged' = FALSE
    /\ result' = "running"
    /\ exit_code' = -1
    /\ UNCHANGED <<systemPath, userPath, backup_file, posix_file,
                   mock_registry>>

NextRepeat ==
    \/ Next
    \/ next_run

SpecRepeat == InitRepeat /\ [][NextRepeat]_vars

\* run_healing called with a MockSystem, as test_run_healing_mocks calls it:
\* the reads and writes of the run go to the registry of the mock, and
\* build_minimal_path reads the machine scope of a WindowsSystem of its own
\* (line 316).
MockRegistries ==
    {[k \in {"Path", "SystemPath"} |-> IF k = "Path" THEN u ELSE s] :
        u \in {None, Some(dir_u)},
        s \in {None, Some(dir_T), Some(dir_u \o <<";">> \o dir_u)}}

InitMock ==
    /\ candidates_map \in RunMaps
    /\ systemPath \in {None, Some(dir_T)}
    /\ userPath = None
    /\ mock_registry \in MockRegistries
    /\ dry_run \in BOOLEAN
    /\ pc = "mock_run_healing"
    /\ calls = <<>>
    /\ current_user_path = <<>>
    /\ new_path_string = <<>>
    /\ adding = <<>>
    /\ removing = <<>>
    /\ sys_dups = 0
    /\ clean_result = "none"
    /\ old_val = <<>>
    /\ backup_file = None
    /\ posix_file = None
    /\ broadcast_called = FALSE
    /\ CHECKED_INVARIANTS = {}
    /\ poisoned = FALSE
    /\ violation_logged = FALSE
    /\ result = "running"
    /\ exit_code = -1

\* run_healing lines 92-114 on the mock.
mock_run_healing_compute ==
    /\ pc = "mock_run_healing"
    /\ \E order \in Orders :
          LET cur == unwrap_or_default(mock_registry["Path"])
              user_paths == build_user_paths(candidates_map, order, systemPath)
              new == joined(user_paths)
          IN  /\ current_user_path' = cur
              /\ new_path_string' = new
              /\ removing' = removing_of(cur, new)
              /\ adding' = adding_of(cur, new)
              /\ CHECKED_INVARIANTS' =
                     build_checked(user_paths, CHECKED_INVARIANTS)
              /\ violation_logged' =
                     (violation_logged \/ build_violation(user_paths))
              /\ poisoned' = poisoned
    /\ calls' = calls \o
          << Call("read_user_path_registry",
                  Outcome(mock_registry["Path"] # None)),
             Call("read_system_path_registry", Outcome(systemPath # None)) >>
    /\ pc' = IF dry_run THEN "mock_report" ELSE "mock_write_posix"
    /\ UNCHANGED <<candidates_map, mock_registry, systemPath, userPath,
                   dry_run, sys_dups, clean_result, old_val, backup_file,
                   posix_file, broadcast_called, result, exit_code>>

\* run_healing lines 116-175 on the mock.
mock_run_healing_report ==
    /\ pc = "mock_report"
    /\ sys_dups' = sys_dups_of(mock_registry["SystemPath"])
    /\ calls' = Append(calls,
          Call("read_system_path_registry",
               Outcome(mock_registry["SystemPath"] # None)))
    /\ result' = "ok"
    /\ pc' = "mock_done"
    /\ UNCHANGED <<candidates_map, mock_registry, systemPath, userPath,
                   dry_run, current_user_path, new_path_string, adding,
                   removing, clean_result, old_val, backup_file, posix_file,
                   broadcast_called, CHECKED_INVARIANTS, poisoned,
                   violation_logged,
                   exit_code>>

\* run_healing lines 179-201 on the mock: the file is a real one.
mock_write_posix ==
    /\ pc = "mock_write_posix"
    /\ \E outcome \in {"no_user_dirs", "create_failed", "written"} :
          IF outcome = "no_user_dirs"
          THEN UNCHANGED <<calls, posix_file>>
          ELSE /\ calls' = calls \o
                     << Call("read_system_path_registry",
                             Outcome(mock_registry["SystemPath"] # None)),
                        Call("create_posix_file",
                             Outcome(outcome = "written")) >>
               /\ posix_file' =
                     IF outcome = "written"
                     THEN Some(full_posix_of(mock_registry["SystemPath"],
                                             new_path_string))
                     ELSE posix_file
    /\ pc' = "mock_apply_path"
    /\ UNCHANGED <<candidates_map, mock_registry, systemPath, userPath,
                   dry_run, current_user_path, new_path_string, adding,
                   removing, sys_dups, clean_result, old_val, backup_file,
                   broadcast_called, CHECKED_INVARIANTS, poisoned,
                   violation_logged,
                   result, exit_code>>

\* apply_path (lines 401-457) on the mock (system.rs lines 143-190): every
\* write succeeds, write_backup_file records the path and writes no file,
\* the broadcast sets the flag, the verification reports healthy.
mock_apply_path ==
    /\ pc = "mock_apply_path"
    /\ old_val' = unwrap_or_default(mock_registry["Path"])
    /\ \E backup \in {"no_base_dirs", "dir_failed", "recorded"} :
          calls' = calls
              \o << Call("read_user_path_registry",
                         Outcome(mock_registry["Path"] # None)) >>
              \o (IF backup = "no_base_dirs" THEN <<>>
                  ELSE IF backup = "dir_failed"
                  THEN << Call("create_dir_all", "err") >>
                  ELSE << Call("create_dir_all", "ok"),
                          Call("write_backup_file", "ok") >>)
              \o << Call("write_user_path_registry", "ok"),
                    Call("broadcast_environment_change", "sent"),
                    Call("broadcast_environment_change", "sent"),
                    Call("verify_environment_health", "ok") >>
    /\ mock_registry' = [mock_registry EXCEPT !["Path"] = Some(new_path_string)]
    /\ broadcast_called' = TRUE
    /\ result' = "ok"
    /\ pc' = "mock_done"
    /\ UNCHANGED <<candidates_map, systemPath, userPath, dry_run,
                   current_user_path, new_path_string, adding, removing,
                   sys_dups, clean_result, backup_file, posix_file,
                   CHECKED_INVARIANTS, poisoned,
                   violation_logged, exit_code>>

NextMock ==
    \/ mock_run_healing_compute
    \/ mock_run_healing_report
    \/ mock_write_posix
    \/ mock_apply_path

SpecMock == InitMock /\ [][NextMock]_vars

\* invariant_ppt.rs: the registry is one static Mutex<HashSet<String>> of the
\* process (lines 6-9), shared by the threads the test harness runs tests on.
\* A panic of a thread that holds the lock poisons the Mutex; lock() then
\* fails for every thread.

\* "PATH must contain System32", the example of line 17.
desc_system32 == "PATH must contain System32"

Descs == {desc_user_paths, desc_system32}

\* The registry after assert_invariant (lines 20-41): the description is
\* inserted when the condition is true and the lock is granted.
assert_invariant(condition, description, set, poison) ==
    IF condition /\ ~poison THEN set \cup {description} ELSE set

\* The registry after clear_invariant_log (lines 73-77).
clear_invariant_log(set, poison) == IF poison THEN set ELSE {}

\* Whether contract_test returns (lines 51-69): lock().unwrap() panics on a
\* poisoned Mutex, and a missing description panics.
contract_test(required_invariants, set, poison) ==
    ~poison /\ required_invariants \subseteq set

\* A test thread that clears the registry, asserts desc_user_paths with a
\* true condition and runs contract_test on it, next to the calls that
\* other test threads make.
InitRegistry ==
    /\ candidates_map = [c \in Cmds |-> <<>>]
    /\ systemPath = None
    /\ userPath = None
    /\ dry_run = TRUE
    /\ pc = "test_clear"
    /\ calls = <<>>
    /\ current_user_path = <<>>
    /\ new_path_string = <<>>
    /\ adding = <<>>
    /\ removing = <<>>
    /\ sys_dups = 0
    /\ clean_result = "none"
    /\ old_val = <<>>
    /\ backup_file = None
    /\ posix_file = None
    /\ broadcast_called = FALSE
    /\ CHECKED_INVARIANTS \in SUBSET Descs
    /\ poisoned = FALSE
    /\ violation_logged = FALSE
    /\ mock_registry = NoMock
    /\ result = "running"
    /\ exit_code = -1

registry_frame ==
    UNCHANGED <<candidates_map, systemPath, userPath, dry_run,
                current_user_path, new_path_string, adding, removing,
                sys_dups, clean_result, old_val, backup_file, posix_file,
                broadcast_called, mock_registry, exit_code>>

\* The test thread: clear_invariant_log().
test_clear ==
    /\ pc = "test_clear"
    /\ CHECKED_INVARIANTS' = clear_invariant_log(CHECKED_INVARIANTS, poisoned)
    /\ pc' = "test_assert"
    /\ registry_frame
    /\ UNCHANGED <<calls, poisoned, violation_logged, result>>

\* The test thread: assert_invariant(true, desc_user_paths, ..).
test_assert ==
    /\ pc = "test_assert"
    /\ CHECKED_INVARIANTS' =
          assert_invariant(TRUE, desc_user_paths, CHECKED_INVARIANTS, poisoned)
    /\ pc' = "test_contract"
    /\ registry_frame
    /\ UNCHANGED <<calls, poisoned, violation_logged, result>>

\* The test thread: contract_test(ctx, [desc_user_paths]); its panic is
\* raised while the guard is held.
test_contract ==
    /\ pc = "test_contract"
    /\ LET passed == contract_test({desc_user_paths}, CHECKED_INVARIANTS,
                                   poisoned)
       IN  /\ result' = IF passed THEN "ok" ELSE "panicked"
           /\ poisoned' = (poisoned \/ ~passed)
    /\ pc' = "test_done"
    /\ registry_frame
    /\ UNCHANGED <<calls, CHECKED_INVARIANTS, violation_logged>>

\* Another test thread calls clear_invariant_log (cleaner.rs line 473).
other_clear ==
    /\ CHECKED_INVARIANTS' = clear_invariant_log(CHECKED_INVARIANTS, poisoned)
    /\ calls' = <<Call("clear_invariant_log", Outcome(~poisoned))>>
    /\ registry_frame
    /\ UNCHANGED <<pc, poisoned, violation_logged, result>>

\* Another test thread calls assert_invariant; a false condition logs the
\* violation and panics before the lock is taken.
other_assert ==
    /\ \E condition \in BOOLEAN, description \in Descs :
          /\ CHECKED_INVARIANTS' =
                assert_invariant(condition, description, CHECKED_INVARIANTS,
                                 poisoned)
          /\ violation_logged' = (violation_logged \/ ~condition)
          /\ calls' = <<Call("assert_invariant",
                             <<description, Outcome(condition)>>)>>
    /\ registry_frame
    /\ UNCHANGED <<pc, poisoned, result>>

\* Another test thread calls contract_test.
other_contract ==
    /\ \E required_invariants \in SUBSET Descs :
          LET passed == contract_test(required_invariants, CHECKED_INVARIANTS,
                                      poisoned)
          IN  /\ poisoned' = (poisoned \/ ~passed)
              /\ calls' = <<Call("contract_test",
                                 <<required_invariants, Outcome(passed)>>)>>
    /\ registry_frame
    /\ UNCHANGED <<pc, CHECKED_INVARIANTS, violation_logged, result>>

NextRegistry ==
    \/ test_clear
    \/ test_assert
    \/ test_contract
    \/ other_clear
    \/ other_assert
    \/ other_contract

SpecRegistry == InitRegistry /\ [][NextRegistry]_vars

TypeOK ==
    /\ pc \in {"clean_system_path", "run_healing", "report", "write_posix",
               "apply_read", "apply_backup", "apply_write", "apply_broadcast1",
               "apply_broadcast2", "apply_verify", "apply_rollback",
               "apply_rollback_broadcast", "main_exit", "done"}
    /\ result \in {"running", "ok", "write_failed", "rolled_back", "unrecoverable"}
    /\ exit_code \in {-1, 0, 1}

----------------------------------------------------------------------------
(* The build specification: build_minimal_path as a function of the        *)
(* candidate map, the machine-scope value it reads and the order in which  *)
(* HashMap::values enumerates the commands.                                *)

BuildMaps == MapsOver(CandDirs)

InitBuild ==
    /\ candidates_map \in BuildMaps
    /\ systemPath \in {None} \cup {Some(v) : v \in SysValues}
    /\ userPath = None
    /\ dry_run = TRUE
    /\ pc = "build"
    /\ calls = <<>>
    /\ current_user_path = <<>>
    /\ new_path_string = <<>>
    /\ adding = <<>>
    /\ removing = <<>>
    /\ sys_dups = 0
    /\ clean_result = "none"
    /\ old_val = <<>>
    /\ backup_file = None
    /\ posix_file = None
    /\ broadcast_called = FALSE
    /\ CHECKED_INVARIANTS = {}
    /\ poisoned = FALSE
    /\ violation_logged = FALSE
    /\ mock_registry = NoMock
    /\ result = "running"
    /\ exit_code = -1

\* One call of build_minimal_path (lines 314-367); it can be called again.
build_call ==
    /\ pc \in {"build", "built"}
    /\ \E order \in Orders :
          LET user_paths == build_user_paths(candidates_map, order, systemPath)
          IN  /\ new_path_string' = joined(user_paths)
              /\ CHECKED_INVARIANTS' =
                    build_checked(user_paths, CHECKED_INVARIANTS)
              /\ violation_logged' =
                    (violation_logged \/ build_violation(user_paths))
              /\ poisoned' = poisoned
    /\ calls' = <<Call("read_system_path_registry", Outcome(systemPath # None))>>
    /\ pc' = "built"
    /\ UNCHANGED <<candidates_map, mock_registry, systemPath, userPath, dry_run,
                   current_user_path, adding, removing, sys_dups,
                   clean_result, old_val, backup_file, posix_file,
                   broadcast_called, result, exit_code>>

NextBuild == build_call

SpecBuild == InitBuild /\ [][NextBuild]_vars

\* The same build over the directories around the Windows directory.
InitReserved ==
    /\ candidates_map \in MapsOver(ReservedDirs)
    /\ systemPath \in {None} \cup {Some(v) : v \in ReservedSysValues}
    /\ userPath = None
    /\ dry_run = TRUE
    /\ pc = "build"
    /\ calls = <<>>
    /\ current_user_path = <<>>
    /\ new_path_string = <<>>
    /\ adding = <<>>
    /\ removing = <<>>
    /\ sys_dups = 0
    /\ clean_result = "none"
    /\ old_val = <<>>
    /\ backup_file = None
    /\ posix_file = None
    /\ broadcast_called = FALSE
    /\ CHECKED_INVARIANTS = {}
    /\ poisoned = FALSE
    /\ violation_logged = FALSE
    /\ mock_registry = NoMock
    /\ result = "running"
    /\ exit_code = -1

SpecReserved == InitReserved /\ [][NextBuild]_vars

\* All candidate directories of the map.
AllCandidates == UNION {Range(candidates_map[c]) : c \in Cmds}

\* The entries of the machine scope as build_minimal_path reads them.
MachineEntries == Range(entries(unwrap_or_default(systemPath)))

\* The segments of the built value.
BuiltSegments == split(new_path_string, ";")

----------------------------------------------------------------------------
(* Claims about build_minimal_path.                                        *)

\* C8: the value returned by build_minimal_path contains no two entries that
\* case-fold to the same directory, whatever the candidate map and the
\* machine-scope value.
C8_NoNormalizedDuplicates ==
    pc = "built" =>
        \A i, j \in 1..Len(BuiltSegments) :
            i # j => to_lowercase(BuiltSegments[i]) # to_lowercase(BuiltSegments[j])

\* C8 witness: the same directory is listed under two commands in two
\* casings and the built value has it once.
C8_Witness ==
    /\ pc = "built"
    /\ \E c, d \in Cmds :
          /\ c # d
          /\ dir_T \in Range(candidates_map[c])
          /\ dir_t \in Range(candidates_map[d])
    /\ to_lowercase(dir_T) \in Range(BuiltSegments)

\* C9: no entry of the built value equals, after case folding, an entry of
\* the machine scope read at build time.
C9_NoMachineScopeEntry ==
    pc = "built" =>
        \A m \in MachineEntries : \A e \in Range(entries(new_path_string)) :
            to_lowercase(e) # to_lowercase(m)

\* C9 witness: the machine scope lists C:\T, a candidate is c:\t, another
\* candidate is kept, and c:\t is not in the built value.
C9_Witness ==
    /\ pc = "built"
    /\ dir_T \in MachineEntries
    /\ dir_t \in AllCandidates
    /\ dir_u \in AllCandidates
    /\ Range(entries(new_path_string)) = {dir_u}

\* C10: building again from the same candidate map and machine-scope value
\* returns the same string, whatever order the commands are enumerated in.
C10_DeterministicBuild ==
    [][(pc = "built" /\ pc' = "built") => new_path_string' = new_path_string]_vars

\* The directory p, compared as a path, is the Windows directory or lies
\* below it.
UnderWindowsDir(p) ==
    LET c == Components(to_lowercase(p))
        w == Components(pat_windows_root)
    IN  Len(c) >= Len(w) /\ SubSeq(c, 1, Len(w)) = w

\* C11: no entry of the built value is the Windows directory or a directory
\* below it, whatever the candidate map and the machine-scope value.
C11_NoReservedDirectory ==
    pc = "built" =>
        \A e \in Range(entries(new_path_string)) : ~UnderWindowsDir(e)

\* The case-folded string of p starts with the case-folded Windows directory.
PrefixUnderWindowsDir(p) == starts_with(to_lowercase(p), pat_windows_root)

\* The directories p and q are the same path after case folding.
SameDirectory(p, q) ==
    Components(to_lowercase(p)) = Components(to_lowercase(q))

\* C12: every candidate that is not the directory of a machine-scope entry
\* and whose case-folded string does not start with the Windows directory
\* has its directory in the built value.
C12_DropsNoOtherCandidate ==
    pc = "built" =>
        \A d \in AllCandidates :
            (/\ ~PrefixUnderWindowsDir(d)
             /\ \A m \in MachineEntries : ~SameDirectory(m, d))
            => \E e \in Range(entries(new_path_string)) : SameDirectory(e, d)

\* C13: every entry of the built value is, character for character, one of
\* the candidate directory strings.
C13_OriginalCasingKept ==
    pc = "built" =>
        \A e \in Range(entries(new_path_string)) : e \in AllCandidates

----------------------------------------------------------------------------
(* Claims about the heal run.                                              *)

\* The calls of one operation, in order.
CallsOf(op) == SelectSeq(calls, LAMBDA c : c[1] = op)

Called(op) == CallsOf(op) # <<>>

\* The writes to the user scope: the target write, then the rollback write.
UserWrites == CallsOf("write_user_path_registry")

\* The verification ran and reported unhealthy.
VerifyFailed == Call("verify_environment_health", "err") \in Range(calls)

\* The user scope had no value when the run read it.
UserReadFailed == Call("read_user_path_registry", "err") \in Range(calls)

\* apply_path or the dry-run report has returned.
Returned == pc \in {"main_exit", "done"}

\* C1: when verification fails and the rollback write succeeds, the user
\* scope after apply_path returns holds exactly the string read at the start
\* of the attempt.
C1_RollbackRestoresExactValue ==
    result = "rolled_back" => userPath = Some(old_val)

\* C1 witness: a rolled-back attempt whose old value has upper-case letters
\* and differs from the target value that had been written.
C1_Witness ==
    /\ result = "rolled_back"
    /\ old_val # to_lowercase(old_val)
    /\ old_val # new_path_string
    /\ new_path_string # <<>>
    /\ UserWrites = << Call("write_user_path_registry", "ok"),
                       Call("write_user_path_registry", "ok") >>

\* C2: after apply_path has returned, the manual-recovery error is reported
\* exactly when verification failed and the rollback write failed, the
\* rolled-back error exactly when verification failed and the rollback write
\* succeeded; a failed verification is never a success, and both errors end
\* the process with a non-zero status.
C2_FailureCategories ==
    Returned =>
        /\ result = "unrecoverable" <=>
              (VerifyFailed /\ Len(UserWrites) = 2 /\ UserWrites[2][2] = "err")
        /\ result = "rolled_back" <=>
              (VerifyFailed /\ Len(UserWrites) = 2 /\ UserWrites[2][2] = "ok")
        /\ VerifyFailed => result \in {"unrecoverable", "rolled_back"}
        /\ (pc = "done" /\ result \in {"unrecoverable", "rolled_back"})
              => exit_code = 1

\* C2 witness: verification failed, the rollback write failed, and the
\* process has exited with status 1 on the manual-recovery error.
C2_Witness ==
    /\ pc = "done"
    /\ VerifyFailed
    /\ UserWrites = << Call("write_user_path_registry", "ok"),
                       Call("write_user_path_registry", "err") >>
    /\ result = "unrecoverable"
    /\ exit_code = 1

\* C3: when the write of the target value fails, apply_path returns the
\* error at once: that write is the last call of the run, nothing was
\* broadcast or verified, no second write was made, and the user scope is
\* what it was before.
C3_WriteFailureAborts ==
    (UserWrites # <<>> /\ UserWrites[1][2] = "err") =>
        /\ Returned
        /\ result = "write_failed"
        /\ calls[Len(calls)] = Call("write_user_path_registry", "err")
        /\ Len(UserWrites) = 1
        /\ ~Called("broadcast_environment_change")
        /\ ~Called("verify_environment_health")
        /\ userPath = (IF UserReadFailed THEN None ELSE Some(old_val))
        /\ pc = "done" => exit_code = 1

\* C3 witness: the target write failed for a target different from the
\* current value, and the process has exited.
C3_Witness ==
    /\ pc = "done"
    /\ UserWrites = << Call("write_user_path_registry", "err") >>
    /\ new_path_string # old_val
    /\ userPath = Some(old_val)
    /\ old_val # <<>>

\* The backup step tried and failed to persist the backup.
BackupFailed ==
    \/ Call("create_dir_all", "err") \in Range(calls)
    \/ Call("write_backup_file", "err") \in Range(calls)

\* C4: a failure to persist the backup does not abort apply_path: once the
\* run has returned, the target write was made, a successful write was
\* followed by both broadcasts and the verification, and the run succeeded
\* if the write succeeded and the verification passed.
C4_BackupFailureNonFatal ==
    (Returned /\ BackupFailed) =>
        /\ UserWrites # <<>>
        /\ UserWrites[1][2] = "ok" =>
              /\ Len(CallsOf("broadcast_environment_change")) >= 2
              /\ Called("verify_environment_health")
        /\ (UserWrites[1][2] = "ok" /\ ~VerifyFailed) => result = "ok"

\* C4 witness: the backup directory could not be created and the run
\* committed the target value.
C4_Witness ==
    /\ pc = "done"
    /\ Call("create_dir_all", "err") \in Range(calls)
    /\ result = "ok"
    /\ exit_code = 0
    /\ userPath = Some(new_path_string)
    /\ new_path_string # old_val

\* An attempt to persist the backup: creating its directory or writing it.
IsBackupAttempt(c) == c[1] \in {"create_dir_all", "write_backup_file"}

\* C5: every write that changes the user scope is preceded, in the same
\* run, by an attempt to persist the backup of the value read before.
C5_BackupAttemptBeforeWrite ==
    \A i \in 1..Len(calls) :
        calls[i] = Call("write_user_path_registry", "ok") =>
            \E j \in 1..(i - 1) : IsBackupAttempt(calls[j])
\* The operations of SystemOps that only read.
ReadOps == {"read_system_path_registry", "read_user_path_registry"}

\* C6: in a dry run no step changes either scope, the backup file, the POSIX
\* mirror or the broadcast flag, and every call a step makes is a read: no
\* write_user_path_registry, write_system_path_registry, write_backup_file,
\* broadcast_environment_change or verify_environment_health is called.
C6_DryRunHasNoSideEffects ==
    [][dry_run =>
          /\ userPath' = userPath
          /\ systemPath' = systemPath
          /\ backup_file' = backup_file
          /\ posix_file' = posix_file
          /\ broadcast_called' = broadcast_called
          /\ \A i \in (Len(calls) + 1)..Len(calls') : calls'[i][1] \in ReadOps
      ]_vars

\* C6 witness: a finished dry run that found duplicates in the machine scope
\* and entries to add and to remove in the user scope.
C6_Witness ==
    /\ pc = "done"
    /\ dry_run
    /\ clean_result = "would_clean"
    /\ adding # <<>>
    /\ removing # <<>>
    /\ exit_code = 0

\* The index of the first entry of es that case-folds to n.
FirstIndex(es, n) ==
    CHOOSE k \in 1..Len(es) :
        /\ to_lowercase(es[k]) = n
        /\ \A j \in 1..(k - 1) : to_lowercase(es[j]) # n

\* C14: the value clean_system_path computes and writes has no empty segment
\* and no two entries that case-fold alike, has the same set of case-folded
\* directories as the non-empty segments of the value read, and lists each
\* directory as its first occurrence is spelled, in the order of the first
\* occurrences.
C14_CleanedValue ==
    [][(pc = "clean_system_path" /\ clean_result' = "cleaned") =>
          LET old == NonEmptyOf(split(systemPath[1], ";"))
              new == split(systemPath'[1], ";")
          IN  /\ \A i \in 1..Len(new) : new[i] # <<>>
              /\ \A i, j \in 1..Len(new) :
                     i # j => to_lowercase(new[i]) # to_lowercase(new[j])
              /\ {to_lowercase(e) : e \in Range(new)}
                     = {to_lowercase(e) : e \in Range(old)}
              /\ \A i \in 1..Len(new) :
                     new[i] = old[FirstIndex(old, to_lowercase(new[i]))]
              /\ \A i, j \in 1..Len(new) :
                     i < j => FirstIndex(old, to_lowercase(new[i]))
                                < FirstIndex(old, to_lowercase(new[j]))
      ]_vars

\* C14 witness: the cleanup has written c:\u;C:\T for a value that repeated
\* both directories, one in another casing, around an empty segment.
C14_Witness ==
    /\ clean_result = "cleaned"
    /\ systemPath = Some(dir_u \o <<";">> \o dir_T)
    /\ Call("write_system_path_registry", "ok") \in Range(calls)

\* C15: when no two non-empty segments of the machine scope case-fold alike,
\* clean_system_path writes nothing, in a dry run and in apply mode, and the
\* machine-scope value stays as it is.
C15_CleanScopeNotWritten ==
    [][(/\ pc = "clean_system_path"
        /\ systemPath # None
        /\ LET es == NonEmptyOf(split(systemPath[1], ";"))
           IN  Cardinality({to_lowercase(e) : e \in Range(es)}) = Len(es))
       => /\ systemPath' = systemPath
          /\ ~\E i \in 1..Len(calls') :
                 calls'[i][1] = "write_system_path_registry"
      ]_vars

\* C15 witness: apply mode has been through the cleanup of a machine scope
\* with one entry and an empty segment, and left it alone.
C15_Witness ==
    /\ ~dry_run
    /\ clean_result = "already_clean"
    /\ systemPath = Some(sys_trailing_separator)
    /\ pc = "done"

\* The cleanup of the machine scope failed: the read or the write.
CleanupFailed == clean_result \in {"read_err", "write_err"}

\* The write of the target value succeeded.
TargetWritten == UserWrites # <<>> /\ UserWrites[1][2] = "ok"

\* C16: when the cleanup of the machine scope fails, the run still goes
\* through the user-scope flow, and its result and exit status are those the
\* user-scope flow alone gives: success for a dry run, and in apply mode
\* success exactly when the target write succeeded and verification passed.
C16_CleanupFailureNonFatal ==
    (pc = "done" /\ CleanupFailed) =>
        /\ Called("read_user_path_registry")
        /\ dry_run => result = "ok"
        /\ ~dry_run =>
              /\ Called("write_user_path_registry")
              /\ result = "ok" <=> (TargetWritten /\ ~VerifyFailed)
        /\ exit_code = IF result = "ok" THEN 0 ELSE 1

\* C16 witness: the write of the deduplicated machine scope failed and the
\* run went on to commit a changed user scope.
C16_Witness ==
    /\ pc = "done"
    /\ clean_result = "write_err"
    /\ ~dry_run
    /\ result = "ok"
    /\ exit_code = 0
    /\ userPath = Some(new_path_string)
    /\ new_path_string # old_val

\* C17: an apply run in which no write to the user scope fails and
\* verification passes returns success, the user scope then holds exactly
\* the built target value, and a broadcast has been issued.
C17_ApplySucceeds ==
    (/\ pc = "done"
     /\ ~dry_run
     /\ Call("write_user_path_registry", "err") \notin Range(calls)
     /\ ~VerifyFailed)
    => /\ result = "ok"
       /\ exit_code = 0
       /\ userPath = Some(new_path_string)
       /\ Called("broadcast_environment_change")

\* C17 witness: a successful apply run whose target value is empty, over a
\* user scope that was not.
C17_Witness ==
    /\ pc = "done"
    /\ ~dry_run
    /\ result = "ok"
    /\ new_path_string = <<>>
    /\ old_val # <<>>
    /\ userPath = Some(<<>>)

\* C18: every verification reports healthy exactly when some two of the
\* three probes succeeded, and an unhealthy report is followed by the
\* rollback write.
C18_MajorityOfProbes ==
    \A i \in 1..Len(calls) :
        calls[i][1] = "verify_environment_health" =>
            /\ i > 1
            /\ calls[i - 1][1] = "probe_commands"
            /\ LET p == calls[i - 1][2]
               IN  calls[i][2] = "ok" <=>
                      ((p[1] /\ p[2]) \/ (p[1] /\ p[3]) \/ (p[2] /\ p[3]))
            /\ (calls[i][2] = "err" /\ Returned) => Len(UserWrites) = 2

\* C18 witness: the first probe failed, the other two succeeded, and the
\* run committed.
C18_Witness ==
    /\ pc = "done"
    /\ result = "ok"
    /\ \E i \in 1..Len(calls) :
          /\ calls[i][1] = "probe_commands"
          /\ calls[i][2] = [k \in 1..3 |-> k # 1]

\* C19: a run whose transaction ended in write-failed, rolled-back or
\* unrecoverable has not written the POSIX mirror.
C19_MirrorOnlyAfterCommit ==
    result \in {"write_failed", "rolled_back", "unrecoverable"} =>
        /\ Call("create_posix_file", "ok") \notin Range(calls)
        /\ posix_file = None

\* C20: the result of an apply run is the one the target write, the
\* verification and the rollback write give, whatever became of the
\* broadcasts and of the POSIX mirror, and the steps after those are
\* executed: the target write after the mirror, the second broadcast and the
\* verification after the first, the error return after the third.
C20_AdvisoryFailuresIgnored ==
    (pc = "done" /\ ~dry_run) =>
        /\ Called("write_user_path_registry")
        /\ TargetWritten =>
              /\ Len(CallsOf("broadcast_environment_change")) >= 2
              /\ Called("verify_environment_health")
        /\ result = IF ~TargetWritten THEN "write_failed"
                    ELSE IF ~VerifyFailed THEN "ok"
                    ELSE IF UserWrites[2][2] = "ok" THEN "rolled_back"
                    ELSE "unrecoverable"
        /\ result = "rolled_back" =>
              Len(CallsOf("broadcast_environment_change")) = 3

\* C20 witness: the POSIX mirror could not be created, no broadcast went
\* through, and the run committed.
C20_Witness ==
    /\ pc = "done"
    /\ ~dry_run
    /\ Call("create_posix_file", "err") \in Range(calls)
    /\ Len(CallsOf("broadcast_environment_change")) = 2
    /\ ~broadcast_called
    /\ result = "ok"

\* C21: on a system whose user scope holds the value built for the candidate
\* map and the machine scope, the run computes an empty diff, an apply run
\* without a failed write and with a passing verification succeeds, and the
\* user scope ends string-equal to what it was.
C21_Idempotent ==
    pc \notin {"clean_system_path", "run_healing"} =>
        /\ adding = <<>>
        /\ removing = <<>>
        /\ (/\ pc = "done"
            /\ ~dry_run
            /\ Call("write_user_path_registry", "err") \notin Range(calls)
            /\ ~VerifyFailed) => result = "ok"
        /\ pc = "done" => userPath = Some(current_user_path)

\* apply_path has read the old value: it is at a later step or has returned.
InApply ==
    /\ ~dry_run
    /\ pc \in {"apply_backup", "apply_write", "apply_broadcast1",
               "apply_broadcast2", "apply_verify", "apply_rollback",
               "apply_rollback_broadcast", "main_exit", "done"}

\* The target value is written and verification has not concluded.
WrittenNotVerified ==
    pc \in {"apply_broadcast1", "apply_broadcast2", "apply_verify"}

\* The user scope holds the value read before the attempt or the whole
\* target value.
UserScopeWhole == unwrap_or_default(userPath) \in {old_val, new_path_string}

C23_DiffByNormalizedEquality ==
    pc \notin {"clean_system_path", "run_healing"} =>
        LET cur == NonEmptyOf(split(current_user_path, ";"))
            new == NonEmptyOf(split(new_path_string, ";"))
            Missing(e, es) ==
                \A k \in 1..Len(es) : to_lowercase(es[k]) # to_lowercase(e)
        IN  /\ adding = SelectSeq(new, LAMBDA e : Missing(e, cur))
            /\ removing = SelectSeq(cur, LAMBDA e : Missing(e, new))
            /\ (AllCandidates = {} /\ current_user_path = <<>>)
                  => (adding = <<>> /\ removing = <<>>)

\* C23 witness: the user scope lists C:\T and c:\u, the built value is c:\t,
\* and the diff removes c:\u only.
C23_Witness ==
    /\ pc = "done"
    /\ current_user_path = dir_T \o <<";">> \o dir_u
    /\ new_path_string = to_lowercase(dir_T)
    /\ removing = <<dir_u>>
    /\ adding = <<>>

\* C24: a dry run ends in success with exit status 0, whatever the candidate
\* map and the two scopes, readable or not.
C24_DryRunSucceeds ==
    (dry_run /\ pc = "done") => (result = "ok" /\ exit_code = 0)

\* C24 witness: a finished dry run that could read neither scope.
C24_Witness ==
    /\ dry_run
    /\ pc = "done"
    /\ systemPath = None
    /\ userPath = None
    /\ exit_code = 0

\* The calls of apply_path so far, from its read of the user scope on, the
\* probe commands inside the verification left out.
ApplyCalls ==
    LET start == CHOOSE i \in 1..Len(calls) :
                     /\ calls[i][1] = "read_user_path_registry"
                     /\ \E j \in 1..(i - 1) :
                           calls[j][1] = "read_user_path_registry"
    IN  SelectSeq(SubSeq(calls, start, Len(calls)),
                  LAMBDA c : c[1] # "probe_commands")

\* The place of call i of seq in the order read, backup directory, backup
\* file, target write, broadcast, broadcast, verify, rollback write,
\* broadcast; 0 for a call that has no place in it.
StepRank(seq, i) ==
    LET op == seq[i][1]
        earlier == Cardinality({j \in 1..(i - 1) : seq[j][1] = op})
    IN  IF op = "read_user_path_registry" /\ earlier = 0 THEN 1
        ELSE IF op = "create_dir_all" /\ earlier = 0 THEN 2
        ELSE IF op = "write_backup_file" /\ earlier = 0 THEN 3
        ELSE IF op = "write_user_path_registry" /\ earlier = 0 THEN 4
        ELSE IF op = "broadcast_environment_change" /\ earlier = 0 THEN 5
        ELSE IF op = "broadcast_environment_change" /\ earlier = 1 THEN 6
        ELSE IF op = "verify_environment_health" /\ earlier = 0 THEN 7
        ELSE IF op = "write_user_path_registry" /\ earlier = 1 THEN 8
        ELSE IF op = "broadcast_environment_change" /\ earlier = 2 THEN 9
        ELSE 0

\* C25: the calls of an apply attempt come in the order read, backup
\* attempt (when one is made), target write, broadcast, broadcast, verify,
\* rollback write, broadcast, each at most once; the verification comes
\* after both broadcasts; a failed verification is followed by exactly one
\* rollback write, and that by one more broadcast exactly when it succeeded;
\* and the attempt ends in one of the four outcomes.
C25_SingleForwardPass ==
    InApply =>
        LET s == ApplyCalls
            rank == [i \in 1..Len(s) |-> StepRank(s, i)]
            ranks == Range(rank)
            broadcasts == Len(CallsOf("broadcast_environment_change"))
        IN  /\ 0 \notin ranks
            /\ \A i \in 1..(Len(s) - 1) : rank[i] < rank[i + 1]
            /\ 7 \in ranks => {4, 5, 6} \subseteq ranks
            /\ 8 \in ranks => (7 \in ranks /\ VerifyFailed)
            /\ pc \in {"main_exit", "done"} =>
                  /\ TargetWritten => 7 \in ranks
                  /\ VerifyFailed =>
                        /\ Len(UserWrites) = 2
                        /\ broadcasts = IF UserWrites[2][2] = "ok" THEN 3 ELSE 2
                  /\ ~VerifyFailed =>
                        /\ Len(UserWrites) = 1
                        /\ broadcasts = IF TargetWritten THEN 2 ELSE 0
                  /\ result \in {"ok", "write_failed", "rolled_back",
                                 "unrecoverable"}

\* C25 witness: an attempt that went through every step: backup written,
\* target written, two broadcasts, failed verification, rollback written,
\* third broadcast.
C25_Witness ==
    /\ pc = "done"
    /\ ~dry_run
    /\ result = "rolled_back"
    /\ {StepRank(ApplyCalls, i) : i \in 1..Len(ApplyCalls)} = 1..9

\* C26: run_healing starts only when the cleanup of the machine scope has
\* finished: the cleanup's read is the first call of the run, its write
\* comes before the first read of the user scope, and the value built is one
\* that build_minimal_path gives for the machine scope as the cleanup left it.
C26_CleanupBeforeExclusionRead ==
    /\ pc # "clean_system_path" => clean_result # "none"
    /\ calls # <<>> => calls[1][1] = "read_system_path_registry"
    /\ \A i, j \in 1..Len(calls) :
          (/\ calls[i][1] = "write_system_path_registry"
           /\ calls[j][1] = "read_user_path_registry") => i < j
    /\ pc \in {"report", "write_posix"} =>
          \E order \in Orders :
              new_path_string =
                  build_minimal_path(candidates_map, order, systemPath)

\* C26 witness: the cleanup wrote c:\t for c:\t;C:\T, and the build that
\* followed left the candidate C:\T out and kept c:\u.
C26_Witness ==
    /\ pc = "done"
    /\ clean_result = "cleaned"
    /\ systemPath = Some(dir_t)
    /\ AllCandidates = {dir_T, dir_u}
    /\ new_path_string = dir_u

\* C27: in a run on a MockSystem no entry of the value written to the user
\* scope of the mock equals, after case folding, an entry of the machine
\* scope of the mock.
C27_BuildReadsPassedSystem ==
    (pc = "mock_done" /\ ~dry_run) =>
        \A m \in Range(entries(unwrap_or_default(mock_registry["SystemPath"]))) :
            \A e \in Range(entries(unwrap_or_default(mock_registry["Path"]))) :
                to_lowercase(e) # to_lowercase(m)

\* C28: when there are candidates and the built value is empty or has no
\* directory of a user profile, the build has logged a violation.
C28_DiagnosticRaised ==
    (/\ pc = "built"
     /\ AllCandidates # {}
     /\ \/ new_path_string = <<>>
        \/ ~has_user_tools(entries(new_path_string)))
    => violation_logged

\* C29: when the user scope cannot be read, the current value is the empty
\* string: nothing is removed, every entry of the built value is added, and
\* an apply run takes the empty string as the old value and goes on to the
\* target write, the broadcasts and the verification.
C29_UnreadableUserScopeIsEmpty ==
    (/\ pc \notin {"clean_system_path", "run_healing"}
     /\ CallsOf("read_user_path_registry")[1][2] = "err")
    => /\ current_user_path = <<>>
       /\ removing = <<>>
       /\ adding = NonEmptyOf(split(new_path_string, ";"))
       /\ dry_run => (pc \in {"report", "main_exit", "done"})
       /\ InApply => old_val = <<>>
       /\ (pc = "done" /\ ~dry_run) =>
             /\ Called("write_user_path_registry")
             /\ TargetWritten =>
                   /\ Len(CallsOf("broadcast_environment_change")) >= 2
                   /\ Called("verify_environment_health")

\* C29 witness: the user scope had no value, the run added c:\u, backed up
\* the empty old value and committed.
C29_Witness ==
    /\ pc = "done"
    /\ ~dry_run
    /\ CallsOf("read_user_path_registry")[1][2] = "err"
    /\ adding = <<dir_u>>
    /\ backup_file = Some(<<>>)
    /\ result = "ok"
    /\ userPath = Some(dir_u)

\* An entry in POSIX form: every backslash a slash, and a leading drive
\* letter X: turned into /x.
PosixForm(e) ==
    LET slashed(c) == IF c = "\\" THEN "/" ELSE c
    IN  IF Len(e) >= 2 /\ e[2] = ":"
        THEN <<"/", to_lowercase(<<e[1]>>)[1]>>
             \o [i \in 1..(Len(e) - 2) |-> slashed(e[i + 2])]
        ELSE [i \in 1..Len(e) |-> slashed(e[i])]

\* C30: the POSIX mirror lists the non-empty entries of the machine scope in
\* their order, then those of the target value in theirs, each in POSIX
\* form, joined with ':'.
C30_PosixMirrorContent ==
    posix_file # None =>
        LET sys == NonEmptyOf(split(unwrap_or_default(systemPath), ";"))
            usr == NonEmptyOf(split(new_path_string, ";"))
            all == sys \o usr
        IN  posix_file[1] = join([i \in 1..Len(all) |-> PosixForm(all[i])], ":")

\* C30 witness: the mirror /u:/c/T:/c/u for the machine scope \u;C:\T and
\* the target value c:\u.
C30_Witness ==
    /\ systemPath = Some(sys_no_drive)
    /\ new_path_string = dir_u
    /\ posix_file = Some(<<"/", "u", ":", "/", "c", "/", "T", ":",
                           "/", "c", "/", "u">>)

\* C31: once the cleanup has written the deduplicated machine-scope value, no
\* later step of the run changes the machine scope: a run that ends in
\* rolled-back, write-failed or unrecoverable leaves the machine scope with a
\* value that needs no cleaning.
C31_RollbackLeavesMachineScope ==
    /\ [][clean_result = "cleaned" => systemPath' = systemPath]_vars
    /\ []((/\ clean_result = "cleaned"
           /\ result \in {"rolled_back", "write_failed", "unrecoverable"})
          => /\ systemPath # None
             /\ ~needs_cleaning(systemPath[1])
             /\ Len(CallsOf("write_system_path_registry")) = 1)

\* C31 witness: the cleanup wrote c:\t for c:\t;C:\T, the user scope was
\* rolled back to C:\T, and the machine scope still holds c:\t.
C31_Witness ==
    /\ pc = "done"
    /\ clean_result = "cleaned"
    /\ result = "rolled_back"
    /\ systemPath = Some(dir_t)
    /\ userPath = Some(dir_T)
    /\ new_path_string = dir_u

\* C32: when the last backup write of the current run succeeded, backup.reg
\* holds the value of the user scope that this run read at its start,
\* whatever earlier runs left there: it is the value the user scope has
\* until the target write, and the one a committed run with an empty diff
\* finds as the target of the run before it.
C32_BackupHoldsLastRead ==
    LET b == CallsOf("write_backup_file")
    IN  (b # <<>> /\ b[Len(b)][2] = "ok")
        => /\ backup_file = Some(escape_reg(old_val))
           /\ old_val = current_user_path
           /\ pc = "apply_write" =>
                 backup_file = Some(escape_reg(unwrap_or_default(userPath)))

\* C32 witness: a committed run with an empty diff that found c:\u, the
\* target of an earlier run, in the user scope: backup.reg holds c:\u and
\* no longer the value from before that earlier run.
C32_Witness ==
    /\ pc = "done"
    /\ result = "ok"
    /\ ~dry_run
    /\ adding = <<>>
    /\ removing = <<>>
    /\ old_val = dir_u
    /\ userPath = Some(dir_u)
    /\ backup_file = Some(escape_reg(dir_u))
    /\ dir_u \notin RepeatUserValues

\* C33: when the read of the user scope failed and the run ends rolled
\* back, the user scope has a value and the value is the empty string.
C33_RollbackOfAbsentWritesEmpty ==
    (/\ result = "rolled_back"
     /\ CallsOf("read_user_path_registry")[1][2] = "err")
    => /\ userPath # None
       /\ userPath = Some(<<>>)
       /\ old_val = <<>>

\* C33 witness: the user scope had no value, c:\u was written, the
\* verification failed and the rollback left the empty string.
C33_Witness ==
    /\ pc = "done"
    /\ result = "rolled_back"
    /\ CallsOf("read_user_path_registry")[1][2] = "err"
    /\ new_path_string = dir_u
    /\ userPath = Some(<<>>)
    /\ Len(UserWrites) = 2

\* C34: the test thread that clears the registry, asserts a description with
\* a true condition and runs contract_test on it passes, whatever the other
\* test threads call in between.
C34_IsolatedTestPasses ==
    pc = "test_done" => result = "ok"

\* The machine scope as apply mode leaves it for the build, given the value
\* a dry run sees.
MachineAfterCleanup(sysread) ==
    IF sysread # None /\ needs_cleaning(sysread[1])
    THEN Some(new_system_path_of(sysread[1]))
    ELSE sysread

\* C7: for the inputs of a finished dry run, apply mode computes the same
\* target value and the same adding and removing lists, and the dry-run
\* report counts duplicates in the machine scope exactly when the cleanup of
\* apply mode has something to write.
C7_DryRunMatchesApply ==
    (dry_run /\ pc = "done") =>
        /\ \A order \in Orders :
              LET dry == build_minimal_path(candidates_map, order, systemPath)
                  app == build_minimal_path(candidates_map, order,
                                            MachineAfterCleanup(systemPath))
                  cur == unwrap_or_default(userPath)
              IN  /\ dry = app
                  /\ adding_of(cur, dry) = adding_of(cur, app)
                  /\ removing_of(cur, dry) = removing_of(cur, app)
        /\ (sys_dups > 0) <=>
              (systemPath # None /\ needs_cleaning(systemPath[1]))

====
